---- MODULE Spec2Model ----
(***************************************************************************)
(* Model of the map-routing core of src/server.js: the PriorityQueue and   *)
(* MapGraph classes (addPoint, addRoad, findShortestPath) and the cityMap  *)
(* seed data.                                                              *)
(*                                                                         *)
(* Units.  A road distance is a JavaScript number of kilometres.  The      *)
(* callers write it with one decimal, given here as a number of tenths of  *)
(* a kilometre (2.5 km is 25); Number turns it into the double that the    *)
(* decimal denotes, and the store and the search hold doubles, exactly, as *)
(* records [tenths, err] (see "JavaScript numbers" below).  A latitude or  *)
(* longitude is held as an integer number of 1e-4 degrees (37.7749 is      *)
(* 377749).  JavaScript's Infinity is the value Infinity below, which Less *)
(* treats as greater than every finite number.                             *)
(***************************************************************************)
EXTENDS Integers, Sequences, FiniteSets, TLC

VARIABLES
    nodes,          \* MapGraph.nodes: id -> [id, lat, lng]
    adjacencyList,  \* MapGraph.adjacencyList: id -> sequence of [node, distance]
    ret,            \* the last call made on the graph and what it returned
    calls           \* the findShortestPath calls run step by step: each one's
                    \* position and local variables

vars == <<nodes, adjacencyList, ret, calls>>

(***************************************************************************)
(* Bounds of the model and the inputs the calls are drawn from.            *)
(***************************************************************************)
\* Largest number of roads a graph built from the empty MapGraph may hold.
MaxRoads == 3

\* Largest number of roads added on top of the seeded cityMap.
MaxSeedRoads == 1

\* Largest number of roads of a store on which a search is run step by step.
MaxSearchRoads == 2

\* The distances of those roads, in tenths of a kilometre: 0.1 + 0.7 is not
\* a double that a decimal with one digit stands for.
SearchDistances == {1, 7}

\* Identifiers offered to the calls on a graph built from the empty MapGraph.
Ids == {"A", "B", "C"}

\* addPoint inputs <<id, lat, lng>> on a graph built from the empty MapGraph.
PointInputs ==
    { <<"A", 377749, -1224194>>, <<"B", 377849, -1224094>>,
      <<"C", 377649, -1224294>> }

\* addPoint inputs when only the store is exercised: "A" is offered with two
\* different coordinates.
StorePointInputs == PointInputs \cup { <<"A", 378000, -1224000>> }

\* addRoad distances (tenths of a kilometre) on a graph built from the empty
\* MapGraph: 1.0 km and 41.0 km.
Distances == {10, 410}

(***************************************************************************)
(* JavaScript values.                                                      *)
(***************************************************************************)
\* null as a predecessor pointer (previous.set(nodeId, null)).
null == "null"

(***************************************************************************)
(* JavaScript numbers.  A finite number x of the search is an IEEE-754     *)
(* double; it is held as [tenths |-> t, err |-> k], which stands for       *)
(*     x = (t * 2^UnitBits + k) / (10 * 2^UnitBits)                        *)
(* exactly: t tenths of a kilometre, and in k the rounding error that x    *)
(* carries.  2^UnitBits is never computed: rounding to a double works on   *)
(* remainders.  The numbers handled lie between 2^-10 and 2^11, whose      *)
(* doubles are all multiples of 2^-UnitBits.                               *)
(***************************************************************************)
\* The bits after the leading one in a double's significand.
MantissaBits == 52

\* The unit of err is 2^-UnitBits tenths of a tenth (see above).
UnitBits == 62

Pow2(e) == 2 ^ e

\* 2^e modulo m, thirty bits at a time: 2^e is too large to be computed
\* first.
RECURSIVE Pow2Mod(_, _)
Pow2Mod(e, m) ==
    IF e <= 30 THEN Pow2(e) % m
    ELSE ((Pow2(30) % m) * Pow2Mod(e - 30, m)) % m

\* The E with 2^E <= n / D < 2^(E+1), for n > 0.
RECURSIVE ExponentUp(_, _)
ExponentUp(n, D) == IF n < 2 * D THEN 0 ELSE 1 + ExponentUp(n, 2 * D)

RECURSIVE ExponentDown(_, _)
ExponentDown(n, D) == IF D <= n THEN 0 ELSE ExponentDown(2 * n, D) - 1

Exponent(n, D) == IF n >= D THEN ExponentUp(n, D) ELSE ExponentDown(n, D)

\* Whether n / D is 2^F.
IsPow2(n, D, F) == IF F >= 0 THEN n = D * Pow2(F) ELSE n * Pow2(-F) = D

\* The exact result (n * 2^UnitBits + k) / (D * 2^UnitBits) of an operation,
\* n > 0, rounded to the nearest double, ties to the even significand: the
\* err of that double.  E is the exponent of the result (a negative k takes
\* a power of two to the binade below it); doubles of exponent E are the
\* multiples of 2^(E - MantissaBits), in the unit of err the multiples of
\* odd; pos is the place of the result above a double of even significand.
RoundPositive(n, k, D) ==
    LET F   == Exponent(n, D)
        E   == IF IsPow2(n, D, F) /\ k < 0 THEN F - 1 ELSE F
        ulp == Pow2(E - MantissaBits + UnitBits)
        odd == D * ulp
        pos == (ulp * (((n % (2 * D)) * Pow2Mod(MantissaBits - E, 2 * D))
                       % (2 * D)) + k) % (2 * odd)
    IN IF pos < odd
       THEN IF 2 * pos <= odd THEN k - pos ELSE k + (odd - pos)
       ELSE IF pos - odd < 2 * odd - pos THEN k - (pos - odd)
            ELSE k + (2 * odd - pos)

\* Rounding to the nearest double: the exact result (n * 2^UnitBits + k) /
\* (D * 2^UnitBits) of an operation becomes the double (n * 2^UnitBits +
\* RoundErr(n, k, D)) / (D * 2^UnitBits).  The operands are bound so that
\* each is computed once.  A whole number (below 2^53, as every n / D here)
\* is a double and is left as it is.
RoundErr(n, k, D) ==
    CHOOSE err \in { IF n0 <= 0 THEN k0
                     ELSE IF k0 = 0 /\ n0 % D = 0 THEN 0
                     ELSE RoundPositive(n0, k0, D) :
                       n0 \in {n}, k0 \in {k} } : TRUE

\* The double 0.
Zero == [tenths |-> 0, err |-> 0]

\* The number that a distance written with one decimal denotes, d being its
\* tenths: the double nearest to d / 10.
Number(d) == [tenths |-> d, err |-> RoundErr(d, 0, 10)]

\* Infinity as a distance label (distances.set(nodeId, Infinity)).
Infinity == [tenths |-> -1, err |-> 0]

\* a < b on numbers that may be Infinity.
Less(a, b) ==
    IF a = Infinity THEN FALSE
    ELSE IF b = Infinity THEN TRUE
    ELSE a.tenths < b.tenths \/ (a.tenths = b.tenths /\ a.err < b.err)

\* What a call returns: null, undefined, a boolean, or a route object.
JsNull == [type |-> "null"]
JsUndefined == [type |-> "undefined"]
JsBool(b) == [type |-> "boolean", val |-> b]

(***************************************************************************)
(* class PriorityQueue                                                     *)
(***************************************************************************)
\* Array.prototype.sort((a, b) => a.priority - b.priority) places x into an
\* already sorted array: the sort is stable, so x goes after every element
\* whose priority is not greater than its own.
RECURSIVE InsertSorted(_, _)
InsertSorted(sorted, x) ==
    IF sorted = <<>> THEN <<x>>
    ELSE LET last == sorted[Len(sorted)]
         IN IF ~Less(x.priority, last.priority)
            THEN Append(sorted, x)
            ELSE Append(InsertSorted(SubSeq(sorted, 1, Len(sorted) - 1), x), last)

\* elements.sort((a, b) => a.priority - b.priority): a stable sort by priority.
RECURSIVE SortByPriority(_)
SortByPriority(elements) ==
    IF elements = <<>> THEN <<>>
    ELSE InsertSorted(SortByPriority(SubSeq(elements, 1, Len(elements) - 1)),
                      elements[Len(elements)])

\* enqueue(node, priority): push, then sort.
enqueue(elements, node, priority) ==
    SortByPriority(Append(elements, [node |-> node, priority |-> priority]))

\* dequeue as it would be if it read elements[0] without removing it.
dequeuePeek(elements) == <<Head(elements), elements>>

\* dequeue(): elements.shift(); the pair <<removed element, remaining elements>>.
dequeue(elements) == <<Head(elements), Tail(elements)>>

\* isEmpty()
isEmpty(elements) == Len(elements) = 0

(***************************************************************************)
(* class MapGraph: the store                                               *)
(***************************************************************************)
\* this.nodes.has(id)
Has(ns, id) == id \in DOMAIN ns

\* map.set(key, value) on a Map held as a function.
MapSet(map, key, value) ==
    [k \in DOMAIN map \cup {key} |-> IF k = key THEN value ELSE map[k]]

\* The state after `new MapGraph()`.
EmptyNodes == [n \in {} |-> 0]

\* addPoint as it would be without the `!this.nodes.has(id)` test: an existing
\* point is overwritten and its adjacency list emptied.
addPointOverwrite(ns, adj, id, lat, lng) ==
    <<MapSet(ns, id, [id |-> id, lat |-> lat, lng |-> lng]),
      MapSet(adj, id, <<>>)>>

\* addPoint(id, lat, lng): the pair <<nodes, adjacencyList>> after the call.
addPoint(ns, adj, id, lat, lng) ==
    IF ~Has(ns, id)
    THEN <<MapSet(ns, id, [id |-> id, lat |-> lat, lng |-> lng]),
           MapSet(adj, id, <<>>)>>
    ELSE <<ns, adj>>

\* this.adjacencyList.get(point).push(entry)
Push(adj, point, entry) == [adj EXCEPT ![point] = Append(@, entry)]

\* addRoad as it would be if it pushed only onto point1's list.
addRoadOneWay(ns, adj, point1, point2, distance) ==
    IF ~Has(ns, point1) THEN <<FALSE, adj>>
    ELSE IF ~Has(ns, point2) THEN <<FALSE, adj>>
    ELSE <<TRUE, Push(adj, point1, [node |-> point2, distance |-> distance])>>

\* addRoad as it would be if it pushed onto point1's list before testing point2.
addRoadPushFirst(ns, adj, point1, point2, distance) ==
    IF ~Has(ns, point1) THEN <<FALSE, adj>>
    ELSE IF ~Has(ns, point2)
         THEN <<FALSE, Push(adj, point1, [node |-> point2, distance |-> distance])>>
    ELSE <<TRUE,
           Push(Push(adj, point1, [node |-> point2, distance |-> distance]),
                point2, [node |-> point1, distance |-> distance])>>

\* addRoad(point1, point2, distance): <<returned boolean, adjacencyList after>>.
addRoad(ns, adj, point1, point2, distance) ==
    IF ~Has(ns, point1) THEN <<FALSE, adj>>
    ELSE IF ~Has(ns, point2) THEN <<FALSE, adj>>
    ELSE <<TRUE,
           Push(Push(adj, point1, [node |-> point2, distance |-> distance]),
                point2, [node |-> point1, distance |-> distance])>>

(***************************************************************************)
(* MapGraph.findShortestPath: the search                                   *)
(***************************************************************************)
\* a + b on numbers that may be Infinity: the exact sum, rounded to a double.
Plus(a, b) ==
    IF a = Infinity \/ b = Infinity THEN Infinity
    ELSE [tenths |-> a.tenths + b.tenths,
          err    |-> RoundErr(a.tenths + b.tenths, a.err + b.err, 10)]

\* The local state of a call before the main loop: every label Infinity and
\* every predecessor null, then the start labelled 0 and enqueued.  `broke`
\* records that the loop was left by `break`; `settled` records the waypoints
\* in the order visited.add was called on them.
SearchInit(ns, startId) ==
    [distances |-> [n \in DOMAIN ns |-> IF n = startId THEN Zero ELSE Infinity],
     previous  |-> [n \in DOMAIN ns |-> null],
     visited   |-> {},
     pq        |-> enqueue(<<>>, startId, Zero),
     broke     |-> FALSE,
     settled   |-> <<>>]

\* The relaxation as it would be if a label were set only once, when the
\* neighbor is first discovered, and never improved.
RelaxNeighborFirstSeen(st, currentNode, neighbor) ==
    IF neighbor.node \in st.visited THEN st
    ELSE LET newDist == Plus(st.distances[currentNode], neighbor.distance)
         IN IF st.distances[neighbor.node] = Infinity
            THEN [st EXCEPT !.distances[neighbor.node] = newDist,
                            !.previous[neighbor.node] = currentNode,
                            !.pq = enqueue(@, neighbor.node, newDist)]
            ELSE st

\* The body of `for (const neighbor of neighbors)` for one neighbor;
\* newDist is bound so that it is computed once.
RelaxNeighbor(st, currentNode, neighbor) ==
    IF neighbor.node \in st.visited THEN st
    ELSE CHOOSE after \in
           { IF Less(newDist, st.distances[neighbor.node])
             THEN [st EXCEPT !.distances[neighbor.node] = newDist,
                             !.previous[neighbor.node] = currentNode,
                             !.pq = enqueue(@, neighbor.node, newDist)]
             ELSE st :
             newDist \in {Plus(st.distances[currentNode],
                               neighbor.distance)} } : TRUE

\* The for loop over the neighbors of currentNode, from index i on.  `next`
\* is the state after neighbor i, bound so that it is computed once.
RECURSIVE RelaxAll(_, _, _, _)
RelaxAll(st, currentNode, neighbors, i) ==
    IF i > Len(neighbors) THEN st
    ELSE CHOOSE after \in
             {RelaxAll(next, currentNode, neighbors, i + 1) :
                 next \in {RelaxNeighbor(st, currentNode, neighbors[i])}} : TRUE

\* An iteration as it would be without `if (visited.has(currentNode)) continue`.
LoopIterationNoStaleCheck(adj, endId, st) ==
    LET d           == dequeue(st.pq)
        currentNode == d[1].node
        popped      == [st EXCEPT !.pq = d[2]]
    IN IF currentNode = endId THEN [popped EXCEPT !.broke = TRUE]
       ELSE RelaxAll([popped EXCEPT !.visited = @ \cup {currentNode},
                                    !.settled = Append(@, currentNode)],
                     currentNode, adj[currentNode], 1)

\* One iteration of `while (!pq.isEmpty())`.
LoopIteration(adj, endId, st) ==
    LET d           == dequeue(st.pq)
        currentNode == d[1].node
        popped      == [st EXCEPT !.pq = d[2]]
    IN IF currentNode \in st.visited THEN popped
       ELSE IF currentNode = endId THEN [popped EXCEPT !.broke = TRUE]
       ELSE RelaxAll([popped EXCEPT !.visited = @ \cup {currentNode},
                                    !.settled = Append(@, currentNode)],
                     currentNode, adj[currentNode], 1)

\* The main loop, run to its end.
RECURSIVE RunLoop(_, _, _)
RunLoop(adj, endId, st) ==
    IF st.broke \/ isEmpty(st.pq) THEN st
    ELSE RunLoop(adj, endId, LoopIteration(adj, endId, st))

\* The local state of findShortestPath(startId, endId) after the main loop.
Search(ns, adj, startId, endId) == RunLoop(adj, endId, SearchInit(ns, startId))

\* The backward walk as it would be with path.push for path.unshift.
RECURSIVE WalkBackAppend(_, _, _, _)
WalkBackAppend(ns, previous, current, path) ==
    IF current = null THEN path
    ELSE WalkBackAppend(ns, previous, previous[current], Append(path, ns[current]))

\* `while (current !== null) { path.unshift(nodes.get(current)); ... }`
RECURSIVE WalkBack(_, _, _, _)
WalkBack(ns, previous, current, path) ==
    IF current = null THEN path
    ELSE WalkBack(ns, previous, previous[current], <<ns[current]>> \o path)

\* The reconstruction as it would be without the test before the walk.
ReconstructPathUnchecked(ns, previous, startId, endId) ==
    WalkBack(ns, previous, endId, <<>>)

\* The reconstruction as it would be without `|| startId === endId`.
ReconstructPathNoSelf(ns, previous, startId, endId) ==
    IF previous[endId] # null
    THEN WalkBack(ns, previous, endId, <<>>)
    ELSE <<>>

\* The path reconstruction: empty unless the end has a predecessor or is the start.
ReconstructPath(ns, previous, startId, endId) ==
    IF previous[endId] # null \/ startId = endId
    THEN WalkBack(ns, previous, endId, <<>>)
    ELSE <<>>

\* Math.round(x) for the number x = (n * 2^UnitBits + k) / (D * 2^UnitBits):
\* floor(x + 1/2), the nearest integer, an exact half going up.  2 * |k| is
\* less than 2^UnitBits, so x + 1/2 is below the integer it is nearest to
\* only when n / D + 1/2 is that integer and k is negative.
MathRound(n, k, D) ==
    LET q == (2 * n + D) \div (2 * D)
    IN IF (2 * n + D) % (2 * D) = 0 /\ k < 0 THEN q - 1 ELSE q

\* Average speed in km/h and minutes per hour of the travel time estimate.
AverageSpeed == 40
MinutesPerHour == 60

RECURSIVE Gcd(_, _)
Gcd(a, b) == IF b = 0 THEN a ELSE Gcd(b, a % b)

\* Math.round((totalDistance / 40) * 60): the quotient is rounded to a
\* double, then the product, then the product is rounded to an integer.
\* The product is held as a fraction in lowest terms, mul / div of the
\* quotient's numerator.
EstimatedTimeMinutes(totalDistance) ==
    LET den      == 10 * AverageSpeed
        quotient == RoundErr(totalDistance.tenths, totalDistance.err, den)
        mul      == MinutesPerHour \div Gcd(MinutesPerHour, den)
        div      == den \div Gcd(MinutesPerHour, den)
        product  == RoundErr(mul * totalDistance.tenths, mul * quotient, div)
    IN MathRound(mul * totalDistance.tenths, product, div)

\* totalDistance.toFixed(2): the integer n nearest to totalDistance * 100
\* (the larger one on a tie), written "<whole>.<hundredths>" and held as
\* its two numbers.
ToFixed2(totalDistance) ==
    LET n == MathRound(10 * totalDistance.tenths, 10 * totalDistance.err, 1)
    IN [whole |-> n \div 100, hundredths |-> n % 100]

\* findShortestPath as it would be if only startId were validated: an unknown
\* endId then yields an object that is no route (the start alone, no distance).
findShortestPathStartOnly(ns, adj, startId, endId) ==
    IF ~Has(ns, startId) THEN JsNull
    ELSE IF ~Has(ns, endId)
         THEN [type          |-> "object",
               path          |-> <<ns[startId]>>,
               totalDistance |-> ToFixed2(Zero),
               estimatedTime |-> 0,
               startPoint    |-> ns[startId],
               endPoint      |-> JsUndefined]
    ELSE LET st   == Search(ns, adj, startId, endId)
             path == ReconstructPath(ns, st.previous, startId, endId)
             totalDistance == st.distances[endId]
         IN IF Len(path) = 0 THEN JsNull
            ELSE [type          |-> "object",
                  path          |-> path,
                  totalDistance |-> ToFixed2(totalDistance),
                  estimatedTime |-> EstimatedTimeMinutes(totalDistance),
                  startPoint    |-> ns[startId],
                  endPoint      |-> ns[endId]]

\* findShortestPath(startId, endId): what the call returns.
findShortestPath(ns, adj, startId, endId) ==
    IF ~Has(ns, startId) \/ ~Has(ns, endId) THEN JsNull
    ELSE LET st   == Search(ns, adj, startId, endId)
             path == ReconstructPath(ns, st.previous, startId, endId)
             totalDistance == st.distances[endId]
         IN IF Len(path) = 0 THEN JsNull
            ELSE [type          |-> "object",
                  path          |-> path,
                  totalDistance |-> ToFixed2(totalDistance),
                  estimatedTime |-> EstimatedTimeMinutes(totalDistance),
                  startPoint    |-> ns[startId],
                  endPoint      |-> ns[endId]]

(***************************************************************************)
(* The cityMap seed data                                                   *)
(***************************************************************************)
SeedPoints ==
    << <<"A", 377749, -1224194>>, <<"B", 377849, -1224094>>,
       <<"C", 377649, -1224294>>, <<"D", 377749, -1223994>>,
       <<"E", 377949, -1224194>> >>

\* The seed roads as they would be with B-E entered as 5.3 for 3.5.
SeedRoadsTypo ==
    << <<"A", "B", 25>>, <<"A", "C", 32>>, <<"A", "D", 41>>, <<"B", "D", 28>>,
       <<"B", "E", 53>>, <<"C", "D", 21>>, <<"D", "E", 38>> >>

SeedRoads ==
    << <<"A", "B", 25>>, <<"A", "C", 32>>, <<"A", "D", 41>>, <<"B", "D", 28>>,
       <<"B", "E", 35>>, <<"C", "D", 21>>, <<"D", "E", 38>> >>

\* The graph after the first i addPoint calls of the seed.
RECURSIVE SeedAfterPoints(_)
SeedAfterPoints(i) ==
    IF i = 0 THEN <<EmptyNodes, EmptyNodes>>
    ELSE LET g == SeedAfterPoints(i - 1)
             p == SeedPoints[i]
         IN addPoint(g[1], g[2], p[1], p[2], p[3])

\* The graph after every addPoint call and the first i addRoad calls of the seed.
RECURSIVE SeedAfterRoads(_)
SeedAfterRoads(i) ==
    IF i = 0 THEN SeedAfterPoints(Len(SeedPoints))
    ELSE LET g == SeedAfterRoads(i - 1)
             r == SeedRoads[i]
         IN <<g[1], addRoad(g[1], g[2], r[1], r[2], Number(r[3]))[2]>>

\* cityMap once the module has loaded.
cityMap == SeedAfterRoads(Len(SeedRoads))

\* Identifiers offered to the calls on the seeded cityMap: its own and "F".
SeedIds == {"A", "B", "C", "D", "E", "F"}

\* The waypoints between which roads are added to the seeded cityMap.
SeedRoadIds == {"A", "C", "E", "F"}

\* addPoint inputs on the seeded cityMap: the new point "F" with either of two
\* coordinates, and "A" again with other coordinates than the seed's.
SeedPointInputs ==
    { <<"F", 378000, -1224000>>, <<"F", 378100, -1224100>>,
      <<"A", 378000, -1224000>> }

\* addRoad distance (tenths of a kilometre) on the seeded cityMap: 2.8 km.
SeedDistances == {28}

(***************************************************************************)
(* The calls as actions                                                    *)
(***************************************************************************)
\* Number of roads in the store: every road has two adjacency entries.
RECURSIVE TotalEntries(_, _)
TotalEntries(adj, S) ==
    IF S = {} THEN 0
    ELSE LET n == CHOOSE x \in S : TRUE
         IN Len(adj[n]) + TotalEntries(adj, S \ {n})

RoadCount(adj) == TotalEntries(adj, DOMAIN adj) \div 2

\* cityMap.addPoint(id, lat, lng)
AddPoint(inputs) ==
    \E p \in inputs :
        LET g == addPoint(nodes, adjacencyList, p[1], p[2], p[3])
        IN /\ nodes' = g[1]
           /\ adjacencyList' = g[2]
           /\ ret' = [op    |-> "addPoint",
                      args  |-> [id |-> p[1], lat |-> p[2], lng |-> p[3]],
                      value |-> JsUndefined]
           /\ UNCHANGED calls

\* cityMap.addRoad(point1, point2, distance); a call that would add a road is
\* made only while the store holds fewer than `limit` roads.
AddRoad(ids, distances, limit) ==
    \E point1 \in ids, point2 \in ids, distance \in distances :
        LET r == addRoad(nodes, adjacencyList, point1, point2, Number(distance))
        IN /\ r[1] => RoadCount(adjacencyList) < limit
           /\ adjacencyList' = r[2]
           /\ ret' = [op    |-> "addRoad",
                      args  |-> [point1 |-> point1, point2 |-> point2,
                                 distance |-> Number(distance)],
                      value |-> JsBool(r[1])]
           /\ UNCHANGED <<nodes, calls>>

\* cityMap.findShortestPath(startId, endId)
FindShortestPath(ids) ==
    \E startId \in ids, endId \in ids :
        /\ ret' = [op    |-> "findShortestPath",
                   args  |-> [startId |-> startId, endId |-> endId],
                   value |-> findShortestPath(nodes, adjacencyList, startId, endId)]
        /\ UNCHANGED <<nodes, adjacencyList, calls>>

\* No findShortestPath call is run step by step.
NoCalls == [p \in {} |-> 0]

\* A MapGraph built from `new MapGraph()`.
Init ==
    /\ nodes = EmptyNodes
    /\ adjacencyList = EmptyNodes
    /\ ret = [op |-> "new MapGraph", args |-> [none |-> 0], value |-> JsUndefined]
    /\ calls = NoCalls

Next ==
    \/ AddPoint(PointInputs)
    \/ AddRoad(Ids, Distances, MaxRoads)
    \/ FindShortestPath(Ids)

Spec == Init /\ [][Next]_vars

\* The server's cityMap: seeded when the module loads, then extended and queried.
InitSeed ==
    /\ nodes = cityMap[1]
    /\ adjacencyList = cityMap[2]
    /\ ret = [op |-> "seed", args |-> [none |-> 0], value |-> JsUndefined]
    /\ calls = NoCalls

NextSeed ==
    \/ AddPoint(SeedPointInputs)
    \/ AddRoad(SeedRoadIds, SeedDistances, Len(SeedRoads) + MaxSeedRoads)
    \/ FindShortestPath(SeedIds)

SpecSeed == InitSeed /\ [][NextSeed]_vars

\* The Graph Store alone: a MapGraph built from `new MapGraph()`, never queried.
NextStore ==
    \/ AddPoint(StorePointInputs)
    \/ AddRoad(Ids, Distances, MaxRoads)

SpecStore == Init /\ [][NextStore]_vars

(***************************************************************************)
(* findShortestPath run step by step                                       *)
(*                                                                         *)
(* A call is held as a record: its position `pc`, its arguments, its local *)
(* variables (`st` for distances, previous, visited and pq; `current` and  *)
(* `path` of the reconstruction), the number of enqueue calls it has made  *)
(* (`inserted`) and, once it has returned, its `result`.                   *)
(***************************************************************************)

\* The local variables of a call that has not created them yet.
NoSearch ==
    [distances |-> <<>>, previous |-> <<>>, visited |-> {}, pq |-> <<>>,
     broke |-> FALSE, settled |-> <<>>]

\* A call that has not been made.
IdleCall ==
    [pc |-> "idle", startId |-> null, endId |-> null, st |-> NoSearch,
     current |-> null, path |-> <<>>, inserted |-> 0, result |-> JsUndefined]

\* The search variables as they would be if they were fields of the MapGraph
\* instance: one copy, written by every call.
StoreShared(cs, p, st) == [q \in DOMAIN cs |-> [cs[q] EXCEPT !.st = st]]

\* distances, previous, visited and pq are `const` locals of the call: writing
\* them changes the variables of call p only.
StoreLocal(cs, p, st) == [cs EXCEPT ![p].st = st]

\* The object findShortestPath returns for a non-empty path.
RouteObject(ns, path, totalDistance, startId, endId) ==
    [type          |-> "object",
     path          |-> path,
     totalDistance |-> ToFixed2(totalDistance),
     estimatedTime |-> EstimatedTimeMinutes(totalDistance),
     startPoint    |-> ns[startId],
     endPoint      |-> ns[endId]]

\* The call is made: validation, then the local variables are created, the
\* start is labelled 0 and enqueued.
Call(p, ids) ==
    /\ calls[p].pc \in {"idle", "done"}
    /\ \E startId \in ids, endId \in ids :
          LET c == [IdleCall EXCEPT !.startId = startId, !.endId = endId]
          IN calls' =
               IF ~Has(nodes, startId) \/ ~Has(nodes, endId)
               THEN [calls EXCEPT ![p] = [c EXCEPT !.pc = "done",
                                                   !.result = JsNull]]
               ELSE StoreLocal([calls EXCEPT ![p] = [c EXCEPT !.pc = "loop",
                                                              !.inserted = 1]],
                               p, SearchInit(nodes, startId))
    /\ UNCHANGED <<nodes, adjacencyList, ret>>

\* One iteration of `while (!pq.isEmpty())`; every pq.enqueue it makes is
\* counted.
Iterate(p) ==
    /\ calls[p].pc = "loop"
    /\ ~calls[p].st.broke
    /\ ~isEmpty(calls[p].st.pq)
    /\ LET st  == calls[p].st
           st2 == LoopIteration(adjacencyList, calls[p].endId, st)
           enqueued == Len(st2.pq) - Len(dequeue(st.pq)[2])
       IN calls' = StoreLocal([calls EXCEPT ![p].inserted = @ + enqueued],
                              p, st2)
    /\ UNCHANGED <<nodes, adjacencyList, ret>>

\* The loop is left, by `break` or because pq is empty; `path = []`,
\* `current = endId`, and the test that guards the walk back.
ExitLoop(p) ==
    /\ calls[p].pc = "loop"
    /\ calls[p].st.broke \/ isEmpty(calls[p].st.pq)
    /\ calls' = [calls EXCEPT
                   ![p].path    = <<>>,
                   ![p].current = calls[p].endId,
                   ![p].pc      =
                       IF \/ calls[p].st.previous[calls[p].endId] # null
                          \/ calls[p].startId = calls[p].endId
                       THEN "walk" ELSE "return"]
    /\ UNCHANGED <<nodes, adjacencyList, ret>>

\* One iteration of `while (current !== null)`.
WalkStep(p) ==
    /\ calls[p].pc = "walk"
    /\ LET current == calls[p].current
           next    == calls[p].st.previous[current]
       IN calls' = [calls EXCEPT
                      ![p].path    = <<nodes[current]>> \o @,
                      ![p].current = next,
                      ![p].pc      = IF next # null THEN "walk" ELSE "return"]
    /\ UNCHANGED <<nodes, adjacencyList, ret>>

\* The rest of the call: null for an empty path, the route object otherwise.
Return(p) ==
    /\ calls[p].pc = "return"
    /\ calls' = [calls EXCEPT
                   ![p].pc     = "done",
                   ![p].result =
                       IF Len(calls[p].path) = 0 THEN JsNull
                       ELSE RouteObject(nodes, calls[p].path,
                                        calls[p].st.distances[calls[p].endId],
                                        calls[p].startId, calls[p].endId)]
    /\ UNCHANGED <<nodes, adjacencyList, ret>>

\* A call that has been made executes its next step.
Advance(p) == Iterate(p) \/ ExitLoop(p) \/ WalkStep(p) \/ Return(p)

\* The stores a step-by-step search is run on: the three points added, then
\* every list of at most MaxSearchRoads addRoad calls, self-loops and parallel
\* roads included.
RoadInputs == Ids \X Ids \X SearchDistances

RoadLists(k) == UNION { [1..n -> RoadInputs] : n \in 0..k }

RECURSIVE AfterPoints(_, _)
AfterPoints(g, points) ==
    IF points = {} THEN g
    ELSE LET pt == CHOOSE x \in points : TRUE
         IN AfterPoints(addPoint(g[1], g[2], pt[1], pt[2], pt[3]),
                        points \ {pt})

RECURSIVE AfterRoads(_, _, _)
AfterRoads(g, roads, i) ==
    IF i > Len(roads) THEN g
    ELSE AfterRoads(<<g[1], addRoad(g[1], g[2], roads[i][1], roads[i][2],
                                    Number(roads[i][3]))[2]>>,
                    roads, i + 1)

\* The identifiers a step-by-step query is made with; "Z" is not a point.
SearchIds == Ids \cup {"Z"}

\* One call on a store that is already built: findShortestPath is synchronous,
\* nothing else runs on the store between its steps.
SearchProcs == {1}

InitSearch ==
    /\ \E roads \in RoadLists(MaxSearchRoads) :
          LET g == AfterRoads(AfterPoints(<<EmptyNodes, EmptyNodes>>,
                                          PointInputs), roads, 1)
          IN nodes = g[1] /\ adjacencyList = g[2]
    /\ ret = [op |-> "new MapGraph", args |-> [none |-> 0], value |-> JsUndefined]
    /\ calls = [p \in SearchProcs |-> IdleCall]

NextSearch ==
    \E p \in SearchProcs :
        \/ Call(p, SearchIds)
        \/ Iterate(p)
        \/ ExitLoop(p)
        \/ WalkStep(p)
        \/ Return(p)

\* A call that has started keeps executing: JavaScript runs the function to
\* completion.
SpecSearch ==
    InitSearch /\ [][NextSearch]_vars /\ \A p \in SearchProcs : WF_vars(Advance(p))

\* Two calls whose steps interleave in any order on the seeded cityMap, which
\* nothing mutates; "F" is not a point of it.
ConcurrentProcs == {1, 2}

InitConcurrent ==
    /\ nodes = cityMap[1]
    /\ adjacencyList = cityMap[2]
    /\ ret = [op |-> "seed", args |-> [none |-> 0], value |-> JsUndefined]
    /\ calls = [p \in ConcurrentProcs |-> IdleCall]

NextConcurrent ==
    \E p \in ConcurrentProcs :
        \/ Call(p, SeedIds)
        \/ Iterate(p)
        \/ ExitLoop(p)
        \/ WalkStep(p)
        \/ Return(p)

SpecConcurrent == InitConcurrent /\ [][NextConcurrent]_vars

(***************************************************************************)
(* Vocabulary of the properties                                            *)
(***************************************************************************)
\* The last call was findShortestPath(S, E).
IsQuery == ret.op = "findShortestPath"
S == ret.args.startId
E == ret.args.endId

\* The last call returned a route object.
IsRoute == IsQuery /\ ret.value.type = "object"

\* The identifiers along a returned path.
PathIds(path) == [i \in 1..Len(path) |-> path[i].id]

\* The number of tenths of a kilometre a two-decimal distance stands for.
Tenths(fixed) == fixed.whole * 10 + fixed.hundredths \div 10

Reverse(seq) == [i \in 1..Len(seq) |-> seq[Len(seq) + 1 - i]]

\* The waypoints one connection away from u, and the weights of the
\* connections between u and v (several when roads are parallel).
Neighbors(adj, u) == {adj[u][i].node : i \in DOMAIN adj[u]}
EdgeNumbers(adj, u, v) ==
    {adj[u][i].distance : i \in {j \in DOMAIN adj[u] : adj[u][j].node = v}}
EdgeWeights(adj, u, v) == {x.tenths : x \in EdgeNumbers(adj, u, v)}

Min(set) == CHOOSE x \in set : \A y \in set : x <= y

\* Every path from u to e that visits no waypoint twice and avoids `seen`,
\* as a sequence of identifiers: the brute-force enumeration.
RECURSIVE PathsFrom(_, _, _, _)
PathsFrom(adj, u, e, seen) ==
    IF u = e THEN {<<e>>}
    ELSE UNION { {<<u>> \o p : p \in PathsFrom(adj, v, e, seen \cup {v})} :
                 v \in Neighbors(adj, u) \ seen }

SimplePaths(adj, s, e) == PathsFrom(adj, s, e, {s})

\* Whether consecutive identifiers of ids are joined by a connection.
IsWalk(adj, ids) ==
    \A i \in 1..(Len(ids) - 1) :
        /\ ids[i] \in DOMAIN adj
        /\ ids[i + 1] \in Neighbors(adj, ids[i])

\* Every sum of weights obtainable along the walk ids, one connection chosen
\* per hop, and the smallest of them.
RECURSIVE WalkSums(_, _, _)
WalkSums(adj, ids, k) ==
    IF k <= 1 THEN {0}
    ELSE {a + w : a \in WalkSums(adj, ids, k - 1),
                  w \in EdgeWeights(adj, ids[k - 1], ids[k])}

PathSums(adj, ids) == WalkSums(adj, ids, Len(ids))
PathWeight(adj, ids) == Min(PathSums(adj, ids))

\* The least weight of a path from s to e, by brute force.
MinDistance(adj, s, e) == Min({PathWeight(adj, p) : p \in SimplePaths(adj, s, e)})

\* Every number obtainable by adding the weights along the walk ids in
\* doubles, from its first waypoint on, one connection chosen per hop.
RECURSIVE WalkNumbers(_, _, _)
WalkNumbers(adj, ids, k) ==
    IF k <= 1 THEN {Zero}
    ELSE {Plus(a, x) : a \in WalkNumbers(adj, ids, k - 1),
                       x \in EdgeNumbers(adj, ids[k - 1], ids[k])}

PathNumbers(adj, ids) == WalkNumbers(adj, ids, Len(ids))

\* x is the least number obtainable along a path from s to e.
IsLeastNumber(adj, s, e, x) ==
    /\ \E p \in SimplePaths(adj, s, e) : x \in PathNumbers(adj, p)
    /\ \A p \in SimplePaths(adj, s, e) :
          \A y \in PathNumbers(adj, p) : ~Less(y, x)

(***************************************************************************)
(* C1: when the waypoints s and e are known and joined by a path,          *)
(* findShortestPath(s, e) returns a route whose total distance is the      *)
(* weight of some path from s to e, and no path from s to e weighs less.   *)
(***************************************************************************)
C1_TotalDistanceIsMinimum ==
    (IsQuery /\ Has(nodes, S) /\ Has(nodes, E)
        /\ SimplePaths(adjacencyList, S, E) # {})
    => /\ ret.value.type = "object"
       /\ \E p \in SimplePaths(adjacencyList, S, E) :
              PathWeight(adjacencyList, p) = Tenths(ret.value.totalDistance)
       /\ \A p \in SimplePaths(adjacencyList, S, E) :
              \A sum \in PathSums(adjacencyList, p) :
                  ~(sum < Tenths(ret.value.totalDistance))

\* A route over two roads of 1.0 km was returned although a direct road of
\* 2.5 km joins the two waypoints.
C1_Witness ==
    /\ IsRoute
    /\ Len(ret.value.path) = 3
    /\ EdgeWeights(adjacencyList, S, E) = {410}
    /\ Tenths(ret.value.totalDistance) = 20

(***************************************************************************)
(* C2: a returned path starts at the waypoint s, ends at the waypoint e,   *)
(* joins consecutive elements by connections of the store, and the total   *)
(* distance is the sum of the weights of connections along it: before      *)
(* formatting, the number obtained by adding them from s on; once          *)
(* formatted, their sum in tenths.                                         *)
(***************************************************************************)
C2_PathIsWalkWithItsWeight ==
    IsRoute
    => LET path == ret.value.path
           ids  == PathIds(path)
       IN /\ Len(path) >= 1
          /\ path[1] = nodes[S]
          /\ path[Len(path)] = nodes[E]
          /\ \A i \in 1..Len(path) : ids[i] \in DOMAIN nodes /\ path[i] = nodes[ids[i]]
          /\ IsWalk(adjacencyList, ids)
          /\ Tenths(ret.value.totalDistance) \in PathSums(adjacencyList, ids)
          /\ Search(nodes, adjacencyList, S, E).distances[E]
                \in PathNumbers(adjacencyList, ids)

\* A route over two connections was returned.
C2_Witness ==
    /\ IsRoute
    /\ Len(ret.value.path) = 3
    /\ S # E
    /\ Tenths(ret.value.totalDistance) = 420

\* The store is the seeded cityMap, nothing added.
OnSeedGraph == nodes = cityMap[1] /\ adjacencyList = cityMap[2]

(***************************************************************************)
(* C3: on the seed graph findShortestPath("A", "E") returns the path       *)
(* [A, B, E] and the estimated time 9.  The claim gives the total distance *)
(* as 6.30 (C3_SeedRouteAsClaimed); the code returns 6.00, the sum of A-B  *)
(* 2.5 and B-E 3.5 (C3_SeedRoute).                                         *)
(***************************************************************************)
\* C3 as claimed: path [A, B, E], total distance 6.30, estimated time 9.
C3_SeedRouteAsClaimed ==
    (IsQuery /\ OnSeedGraph /\ S = "A" /\ E = "E")
    => /\ ret.value.type = "object"
       /\ PathIds(ret.value.path) = <<"A", "B", "E">>
       /\ ret.value.totalDistance = [whole |-> 6, hundredths |-> 30]
       /\ ret.value.estimatedTime = 9

\* C3 as the code behaves: path [A, B, E], total distance 6.00, estimated
\* time 9.
C3_SeedRoute ==
    (IsQuery /\ OnSeedGraph /\ S = "A" /\ E = "E")
    => /\ ret.value.type = "object"
       /\ PathIds(ret.value.path) = <<"A", "B", "E">>
       /\ ret.value.totalDistance = [whole |-> 6, hundredths |-> 0]
       /\ ret.value.estimatedTime = 9

\* findShortestPath("A", "E") has returned a route on the seed graph.
C3_Witness == IsRoute /\ OnSeedGraph /\ S = "A" /\ E = "E"

(***************************************************************************)
(* C4: when startId or endId is not a waypoint of the store,               *)
(* findShortestPath returns null: no route object, whole or partial.       *)
(***************************************************************************)
C4_UnknownPointReturnsNull ==
    (IsQuery /\ (~Has(nodes, S) \/ ~Has(nodes, E))) => ret.value = JsNull

\* A query from a known, connected waypoint to an unknown one returned null.
C4_Witness ==
    /\ IsQuery
    /\ Has(nodes, S) /\ ~Has(nodes, E)
    /\ adjacencyList[S] # <<>>
    /\ ret.value = JsNull

(***************************************************************************)
(* C5: for two distinct known waypoints, findShortestPath returns null     *)
(* exactly when no path joins them.                                        *)
(***************************************************************************)
C5_NullIffNoPath ==
    (IsQuery /\ Has(nodes, S) /\ Has(nodes, E) /\ S # E)
    => (ret.value = JsNull <=> SimplePaths(adjacencyList, S, E) = {})

\* A query between two known waypoints returned null: the start has a road,
\* the end has no connection at all.
C5_Witness ==
    /\ IsQuery
    /\ Has(nodes, S) /\ Has(nodes, E) /\ S # E
    /\ adjacencyList[S] # <<>>
    /\ adjacencyList[E] = <<>>
    /\ ret.value = JsNull

(***************************************************************************)
(* C6: for a waypoint p of the store, findShortestPath(p, p) returns the   *)
(* one-element path [p], total distance 0.00 and estimated time 0.         *)
(***************************************************************************)
C6_SamePoint ==
    (IsQuery /\ S = E /\ Has(nodes, S))
    => /\ ret.value.type = "object"
       /\ ret.value.path = <<nodes[S]>>
       /\ ret.value.totalDistance = [whole |-> 0, hundredths |-> 0]
       /\ ret.value.estimatedTime = 0

\* findShortestPath(p, p) has returned on a waypoint with a self-loop and a
\* road to another waypoint.
C6_Witness ==
    /\ IsRoute
    /\ S = E
    /\ S \in Neighbors(adjacencyList, S)
    /\ Neighbors(adjacencyList, S) # {S}

\* What the query of the opposite direction returns on the same store.
Back == findShortestPath(nodes, adjacencyList, E, S)

\* Exactly one path from s to e has the minimum weight.
UniqueShortest(adj, s, e) ==
    Cardinality({p \in SimplePaths(adj, s, e) :
                    PathWeight(adj, p) = MinDistance(adj, s, e)}) = 1

IsAddRoad == ret.op = "addRoad"

(***************************************************************************)
(* C8: addRoad(p1, p2, d) with p1 or p2 absent from the store returns      *)
(* false and changes neither the waypoints nor any adjacency list.         *)
(***************************************************************************)
C8_FailedAddRoadChangesNothing ==
    [][ (IsAddRoad' /\ (~Has(nodes, ret'.args.point1) \/ ~Has(nodes, ret'.args.point2)))
        => /\ ret'.value = JsBool(FALSE)
           /\ nodes' = nodes
           /\ adjacencyList' = adjacencyList ]_vars

\* addRoad has failed on one unknown endpoint while the other endpoint exists
\* and already has a road.
C8_Witness ==
    /\ IsAddRoad
    /\ ret.value = JsBool(FALSE)
    /\ Has(nodes, ret.args.point1) /\ ~Has(nodes, ret.args.point2)
    /\ adjacencyList[ret.args.point1] # <<>>

\* How many times entry occurs in an adjacency list.
Count(list, entry) == Cardinality({i \in DOMAIN list : list[i] = entry})

\* One list per waypoint; every entry names a waypoint whose list mirrors it
\* as often; a self-loop's entries come in pairs.
WellFormed ==
    /\ DOMAIN adjacencyList = DOMAIN nodes
    /\ \A m \in DOMAIN nodes : nodes[m].id = m
    /\ \A m \in DOMAIN adjacencyList :
          \A i \in DOMAIN adjacencyList[m] :
              LET n == adjacencyList[m][i].node
                  w == adjacencyList[m][i].distance
              IN /\ n \in DOMAIN nodes
                 /\ Count(adjacencyList[n], [node |-> m, distance |-> w])
                      = Count(adjacencyList[m], [node |-> n, distance |-> w])
                 /\ (n = m => Count(adjacencyList[m], [node |-> m, distance |-> w]) % 2 = 0)

(***************************************************************************)
(* C9: after any sequence of addPoint and addRoad calls the adjacency      *)
(* mapping has exactly one list per waypoint, every entry (n, w) in the    *)
(* list of m names a waypoint n whose list holds (m, w) the same number of *)
(* times; and addPoint on an existing id changes neither its coordinates   *)
(* nor its adjacency list.                                                 *)
(***************************************************************************)
C9_AdjacencyWellFormed ==
    /\ []WellFormed
    /\ [][ (ret'.op = "addPoint" /\ Has(nodes, ret'.args.id))
           => /\ nodes' = nodes
              /\ adjacencyList' = adjacencyList ]_vars

\* addPoint has been called on an existing id, with other coordinates than
\* the stored ones, while that point had a road.
C9_Witness ==
    /\ ret.op = "addPoint"
    /\ Has(nodes, ret.args.id)
    /\ nodes[ret.args.id].lat # ret.args.lat
    /\ adjacencyList[ret.args.id] # <<>>

(***************************************************************************)
(* C10: the estimated time of a route is (totalDistance / 40) * 60 rounded *)
(* to the nearest integer, an exact half going up: for a total distance of *)
(* d tenths of a kilometre, floor((3 * d + 10) / 20).  6.30 gives 9, 3.20  *)
(* gives 5, 2.80 gives 4 and 1.0 gives 2.                                  *)
(***************************************************************************)
C10_EstimatedTimeAsClaimed ==
    /\ IsRoute
       => LET d == Tenths(ret.value.totalDistance)
          IN /\ ret.value.estimatedTime = (3 * d + 10) \div 20
             /\ 20 * ret.value.estimatedTime <= 3 * d + 10
             /\ 3 * d + 10 < 20 * (ret.value.estimatedTime + 1)
    /\ EstimatedTimeMinutes(Number(63)) = 9
    /\ EstimatedTimeMinutes(Number(32)) = 5
    /\ EstimatedTimeMinutes(Number(28)) = 4
    /\ EstimatedTimeMinutes(Number(10)) = 2

\* A route of 41.0 km was returned: 61.5 minutes, an exact half, reported as
\* 61, because the double product (41 / 40) * 60 is 61.49999999999999.
C10_Witness ==
    /\ IsRoute
    /\ Tenths(ret.value.totalDistance) = 410
    /\ ret.value.estimatedTime = 61

NoDuplicates(seq) == \A i, j \in 1..Len(seq) : seq[i] = seq[j] => i = j

\* x is the minimum distance from s to n: the least number that adding the
\* weights along a path gives, which is the least weight in tenths.
IsMinimumDistance(adj, s, n, x) ==
    /\ IsLeastNumber(adj, s, n, x)
    /\ x.tenths = MinDistance(adj, s, n)

\* In every call: no waypoint was settled twice, the settled waypoints are
\* the visited set, every settled waypoint carries the minimum distance
\* from the start, and so does the end waypoint once the loop has stopped
\* early on it.
SettledLabelsAreMinimal ==
    \A p \in DOMAIN calls :
        LET c == calls[p]
        IN /\ NoDuplicates(c.st.settled)
           /\ {c.st.settled[i] : i \in 1..Len(c.st.settled)} = c.st.visited
           /\ \A n \in c.st.visited :
                 IsMinimumDistance(adjacencyList, c.startId, n,
                                   c.st.distances[n])
           /\ c.st.broke =>
                 IsMinimumDistance(adjacencyList, c.startId, c.endId,
                                   c.st.distances[c.endId])

\* In every step of a call under way: a settled waypoint stays settled with
\* the label and the predecessor it has, and an iteration that extracts an
\* entry of a settled waypoint does nothing but remove the entry.
SettledNeverChanges ==
    \A p \in DOMAIN calls :
        LET c == calls[p]
            d == calls'[p]
        IN c.pc \in {"loop", "walk", "return"} =>
             /\ \A n \in c.st.visited :
                   /\ n \in d.st.visited
                   /\ d.st.distances[n] = c.st.distances[n]
                   /\ d.st.previous[n] = c.st.previous[n]
             /\ ( /\ c.pc = "loop"
                  /\ ~c.st.broke
                  /\ ~isEmpty(c.st.pq)
                  /\ Head(c.st.pq).node \in c.st.visited
                  /\ d # c )
                => d = [c EXCEPT !.st.pq = Tail(@)]

(***************************************************************************)
(* C11: during a search each waypoint is settled, and its neighbours       *)
(* relaxed, at most once, a later queue entry for it being discarded; when *)
(* a waypoint is settled, or the end waypoint is extracted and the loop    *)
(* stops, its label is the minimum distance from the start (the least      *)
(* number that adding the weights along a path gives, and in tenths the    *)
(* least weight); a settled waypoint's label and predecessor never change  *)
(* afterwards.                                                             *)
(***************************************************************************)
C11_SettledOnceAndFinal ==
    []SettledLabelsAreMinimal /\ [][SettledNeverChanges]_vars

\* A search that lowered a label after enqueueing the waypoint (two parallel
\* roads, the longer one first), settled the waypoint once and has thrown
\* its stale entry away.
C11_Witness ==
    \E p \in DOMAIN calls :
        /\ calls[p].pc = "loop"
        /\ Len(calls[p].st.settled) = 2
        /\ calls[p].inserted = 3
        /\ isEmpty(calls[p].st.pq)

\* Every call that has returned holds what findShortestPath returns for its
\* arguments when run alone on the store.
ResultAsAlone ==
    \A p \in DOMAIN calls :
        calls[p].pc = "done" =>
            calls[p].result = findShortestPath(nodes, adjacencyList,
                                               calls[p].startId, calls[p].endId)

\* A step of a call leaves the store as it is and changes no other call.
StepIsLocal ==
    /\ nodes' = nodes
    /\ adjacencyList' = adjacencyList
    /\ \A p, q \in DOMAIN calls :
          (p # q /\ calls'[p] # calls[p]) => calls'[q] = calls[q]

(***************************************************************************)
(* C12: findShortestPath never modifies the store, whether the query       *)
(* succeeds or fails, and its search state belongs to the call; so on a    *)
(* store that is not mutated, however the steps of two queries interleave, *)
(* each returns what it returns alone, and a repeated query returns the    *)
(* same path, distance and time.                                           *)
(***************************************************************************)
C12_QueriesAreIndependent ==
    []ResultAsAlone /\ [][StepIsLocal]_vars

\* A to E has returned its three-waypoint route while E to A is in the
\* middle of its loop, two waypoints settled.
C12_Witness ==
    /\ calls[1].pc = "done"
    /\ calls[1].startId = "A" /\ calls[1].endId = "E"
    /\ calls[1].result.type = "object"
    /\ Len(calls[1].result.path) = 3
    /\ calls[2].pc = "loop"
    /\ calls[2].startId = "E" /\ calls[2].endId = "A"
    /\ Len(calls[2].st.settled) = 2

\* The waypoints met following the predecessor pointers from n, n first, for
\* at most k pointers; the walk is cut when k runs out.
RECURSIVE Chain(_, _, _)
Chain(previous, n, k) ==
    IF n = null \/ k = 0 THEN <<>>
    ELSE <<n>> \o Chain(previous, previous[n], k - 1)

\* The predecessor pointers contain no cycle: from every waypoint they lead
\* to null without meeting a waypoint twice.
NoPredecessorCycle(previous) ==
    \A n \in DOMAIN previous :
        LET chain == Chain(previous, n, Cardinality(DOMAIN previous) + 1)
        IN /\ NoDuplicates(chain)
           /\ previous[chain[Len(chain)]] = null

\* In every call: the enqueue calls made so far number at most one more than
\* the adjacency entries of the store; the predecessor pointers have no
\* cycle; the walk back has met no waypoint twice, and once it is over the
\* path it built leads from the start waypoint to the end waypoint.
SearchIsBounded ==
    \A p \in DOMAIN calls :
        LET c == calls[p]
        IN /\ c.inserted <= 1 + TotalEntries(adjacencyList, DOMAIN adjacencyList)
           /\ NoPredecessorCycle(c.st.previous)
           /\ NoDuplicates(PathIds(c.path))
           /\ (c.pc \in {"return", "done"} /\ Len(c.path) > 0) =>
                 /\ c.path[1] = nodes[c.startId]
                 /\ c.path[Len(c.path)] = nodes[c.endId]

\* The loop is left only with the queue empty or the end waypoint extracted.
LoopEndsOnEmptyOrEnd ==
    \A p \in DOMAIN calls :
        (calls[p].pc = "loop" /\ calls'[p].pc \in {"walk", "return"}) =>
            \/ isEmpty(calls[p].st.pq)
            \/ calls[p].st.broke /\ calls[p].endId \notin calls[p].st.visited

\* Every call that has entered its loop returns.
EveryCallReturns ==
    \A p \in SearchProcs : (calls[p].pc = "loop") ~> (calls[p].pc = "done")

(***************************************************************************)
(* C13: on every store built by addPoint and addRoad, self-loops and       *)
(* parallel roads included, and for every pair of identifiers,             *)
(* findShortestPath terminates: the loop ends with the queue empty or the  *)
(* end waypoint extracted, the enqueue calls number at most 1 plus the     *)
(* adjacency entries, and the walk over the predecessor pointers reaches   *)
(* the start without meeting a waypoint twice.                             *)
(***************************************************************************)
C13_SearchTerminates ==
    []SearchIsBounded /\ [][LoopEndsOnEmptyOrEnd]_vars /\ EveryCallReturns

\* A call has returned a route between two waypoints on a store where the
\* start has a self-loop, after enqueueing the start and the end.
C13_Witness ==
    \E p \in DOMAIN calls :
        /\ calls[p].pc = "done"
        /\ calls[p].result.type = "object"
        /\ Len(calls[p].result.path) = 2
        /\ calls[p].startId \in Neighbors(adjacencyList, calls[p].startId)
        /\ calls[p].inserted >= 2

====
